---------------------------- MODULE Spec2Model ----------------------------
(***************************************************************************)
(* Sherlock OSINT business search.                                         *)
(*                                                                         *)
(*   src/netlify/functions/sherlock-search/main.py   the Netlify function  *)
(*   src/python/sherlock_business_search.py          SherlockBusinessSearch*)
(*                                                                         *)
(* A Python string is a sequence of one-character strings, so that         *)
(* lower(), strip(), replace(), the regular-expression filters and the     *)
(* substring tests are computed character by character as the code does.   *)
(***************************************************************************)
EXTENDS Integers, Sequences, FiniteSets, TLC

(***************************************************************************)
(* Characters                                                              *)
(***************************************************************************)
UpperChars == <<"A","B","C","D","E","F","G","H","I","J","K","L","M",
                "N","O","P","Q","R","S","T","U","V","W","X","Y","Z">>
LowerChars == <<"a","b","c","d","e","f","g","h","i","j","k","l","m",
                "n","o","p","q","r","s","t","u","v","w","x","y","z">>
DigitChars == <<"0","1","2","3","4","5","6","7","8","9">>

Range(s) == {s[i] : i \in DOMAIN s}

\* str.isalnum() / the class [a-zA-Z0-9] on the ASCII characters modelled
IsAlnum(c) == c \in Range(UpperChars) \cup Range(LowerChars) \cup Range(DigitChars)

\* the class [a-zA-Z0-9._-]
IsUserChar(c) == IsAlnum(c) \/ c \in {".", "_", "-"}

IsSpace(c) == c = " "

\* str.lower(), one character
LowerChar(c) ==
    IF c \in Range(UpperChars)
    THEN LowerChars[CHOOSE i \in DOMAIN UpperChars : UpperChars[i] = c]
    ELSE c

(***************************************************************************)
(* Strings                                                                 *)
(***************************************************************************)
\* str.lower()
Lower(s) == [i \in DOMAIN s |-> LowerChar(s[i])]

RECURSIVE LStrip(_)
LStrip(s) == IF s # <<>> /\ IsSpace(Head(s)) THEN LStrip(Tail(s)) ELSE s

RECURSIVE RStrip(_)
RStrip(s) ==
    IF s # <<>> /\ IsSpace(s[Len(s)]) THEN RStrip(SubSeq(s, 1, Len(s) - 1)) ELSE s

\* str.strip()
Strip(s) == RStrip(LStrip(s))

\* s[i:i+len(old)] == old
MatchAt(s, old, i) ==
    /\ i + Len(old) - 1 <= Len(s)
    /\ SubSeq(s, i, i + Len(old) - 1) = old

RECURSIVE ReplaceFrom(_, _, _, _)
ReplaceFrom(s, old, new, i) ==
    IF i > Len(s) THEN <<>>
    ELSE IF MatchAt(s, old, i)
         THEN new \o ReplaceFrom(s, old, new, i + Len(old))
         ELSE <<s[i]>> \o ReplaceFrom(s, old, new, i + 1)

\* str.replace(old, new) for a non-empty old: leftmost, non-overlapping
Replace(s, old, new) == ReplaceFrom(s, old, new, 1)

\* old in s
Contains(old, s) == \E i \in 1..(Len(s) + 1) : MatchAt(s, old, i)

\* ''.join(c for c in s if c.isalnum())  and  re.sub(r'[^a-zA-Z0-9]', '', s)
AlnumOnly(s) == SelectSeq(s, IsAlnum)

\* re.sub(r'[^a-zA-Z0-9._-]', '', s)
UserCharsOnly(s) == SelectSeq(s, IsUserChar)

(***************************************************************************)
(* String literals of the source                                           *)
(***************************************************************************)
W_inc      == <<"i","n","c">>
W_llc      == <<"l","l","c">>
W_ltd      == <<"l","t","d">>
W_corp     == <<"c","o","r","p">>
W_company  == <<"c","o","m","p","a","n","y">>
W_co       == <<"c","o">>
W_group    == <<"g","r","o","u","p">>
W_agency   == <<"a","g","e","n","c","y">>
W_official == <<"o","f","f","i","c","i","a","l">>
W_real     == <<"r","e","a","l">>
W_team     == <<"t","e","a","m">>
W_hq       == <<"h","q">>

(***************************************************************************)
(* main.py: generate_business_usernames                                    *)
(***************************************************************************)
business_words ==
    <<W_inc, W_llc, W_ltd, W_corp, W_company, W_co, W_group, W_agency>>

\* for word in business_words: clean_name = clean_name.replace(word, '').strip()
RECURSIVE RemoveBusinessWords(_, _)
RemoveBusinessWords(clean_name, i) ==
    IF i > Len(business_words) THEN clean_name
    ELSE RemoveBusinessWords(Strip(Replace(clean_name, business_words[i], <<>>)), i + 1)

\* clean_name after the loop
CleanName(business_name) == RemoveBusinessWords(Strip(Lower(business_name)), 1)

\* the list usernames, before the set() and the slice
UsernameList(business_name) ==
    LET clean_name == CleanName(business_name)
        base == AlnumOnly(clean_name)
    IN  << base,
           Replace(clean_name, <<" ">>, <<>>),
           Replace(clean_name, <<" ">>, <<"_">>),
           Replace(clean_name, <<" ">>, <<"-">>),
           base \o W_official,
           W_official \o base,
           base \o W_inc,
           base \o W_co >>

MainMinLen == 2
MainMaxUsernames == 5

\* set(u for u in usernames if u and len(u) >= 2)
UsernameSet(business_name) ==
    {u \in Range(UsernameList(business_name)) : u # <<>> /\ Len(u) >= MainMinLen}

\* list(S)[:k]: the iteration order of a set of strings is whatever the hash
\* seed makes it, so every arrangement of min(k, |S|) distinct elements
RECURSIVE Arrangements(_, _)
Arrangements(S, k) ==
    IF k = 0 \/ S = {} THEN {<<>>}
    ELSE UNION {{<<x>> \o t : t \in Arrangements(S \ {x}, k - 1)} : x \in S}

\* the lists generate_business_usernames can return
generate_business_usernames(business_name) ==
    Arrangements(UsernameSet(business_name), MainMaxUsernames)

(***************************************************************************)
(* SherlockBusinessSearch.generate_business_usernames, username_score      *)
(***************************************************************************)
business_affixes == <<W_official, W_real, W_team, W_hq, W_inc, W_corp, W_company>>

\* re.sub(r'[^a-zA-Z0-9]', '', name.lower())
original_clean(name) == AlnumOnly(Lower(name))

base_variations(business_name) ==
    << Replace(Lower(business_name), <<" ">>, <<>>),
       Replace(Lower(business_name), <<" ">>, <<"_">>),
       Replace(Lower(business_name), <<" ">>, <<".">>),
       Replace(Lower(business_name), <<" ">>, <<"-">>) >>

\* the set usernames before the length filter
ClassUsernameSet(business_name) ==
    LET clean_name == original_clean(business_name)
        vars_ == {UserCharsOnly(v) : v \in Range(base_variations(business_name))}
    IN  {clean_name}
        \cup {v \in vars_ : v # <<>>}
        \cup UNION {{ clean_name \o a, a \o clean_name,
                      clean_name \o <<"_">> \o a, a \o <<"_">> \o clean_name }
                    : a \in Range(business_affixes)}

ClassMinLen == 3
ClassMaxLen == 30
ClassMaxUsernames == 10

\* valid_usernames, as a set
valid_usernames(business_name) ==
    {u \in ClassUsernameSet(business_name) : Len(u) >= ClassMinLen /\ Len(u) <= ClassMaxLen}

\* username_score, times 2 (the code subtracts len(username) * 0.5)
username_score(username, original_name) ==
    LET oc == original_clean(original_name)
    IN  (IF username = oc THEN 200 ELSE 0)
      + (IF Len(username) = Len(oc) THEN 40 ELSE 0)
      + (IF Contains(oc, username) THEN 100 ELSE 0)
      - Len(username)
      + (IF ~ \E a \in {W_official, W_real, W_team} : Contains(a, username)
         THEN 20 ELSE 0)

\* the key sorted() orders by, for every element of S: ascending
SortKey(S, original_name) == [u \in S |-> username_score(u, original_name)]

\* sorted(S, key)[:k]: ascending by key, equal keys in the set's iteration order,
\* which is whatever the hash seed makes it
RECURSIVE SortedTake(_, _, _)
SortedTake(S, key, k) ==
    IF k = 0 \/ S = {} THEN {<<>>}
    ELSE LET first == CHOOSE x \in S : \A y \in S : key[x] <= key[y]
             least == {x \in S : key[x] = key[first]}
             n     == IF Cardinality(least) < k THEN Cardinality(least) ELSE k
         IN  {h \o t : h \in Arrangements(least, n),
                       t \in SortedTake(S \ least, key, k - n)}

\* the lists SherlockBusinessSearch.generate_business_usernames can return
class_generate_business_usernames(business_name) ==
    LET valid == valid_usernames(business_name)
    IN  SortedTake(valid, SortKey(valid, business_name), ClassMaxUsernames)

(***************************************************************************)
(* SherlockBusinessSearch: identify_platform, the two parsers,             *)
(* calculate_relevance, process_results                                    *)
(*                                                                         *)
(* A URL is what urlparse makes of it: [netloc, path], both strings; two   *)
(* URLs are the same Python string exactly when the records are equal.     *)
(* A platform identifier is a TLA+ string: the code only compares them.    *)
(***************************************************************************)
W_www == <<"w","w","w",".">>

\* domain_to_platform, as (domain, platform) pairs
domain_to_platform ==
    << <<<<"i","n","s","t","a","g","r","a","m",".","c","o","m">>, "instagram">>,
       <<<<"f","a","c","e","b","o","o","k",".","c","o","m">>, "facebook">>,
       <<<<"l","i","n","k","e","d","i","n",".","c","o","m">>, "linkedin">>,
       <<<<"t","w","i","t","t","e","r",".","c","o","m">>, "twitter">>,
       <<<<"x",".","c","o","m">>, "twitter">>,
       <<<<"t","i","k","t","o","k",".","c","o","m">>, "tiktok">>,
       <<<<"y","o","u","t","u","b","e",".","c","o","m">>, "youtube">>,
       <<<<"p","i","n","t","e","r","e","s","t",".","c","o","m">>, "pinterest">>,
       <<<<"s","n","a","p","c","h","a","t",".","c","o","m">>, "snapchat">>,
       <<<<"r","e","d","d","i","t",".","c","o","m">>, "reddit">>,
       <<<<"m","e","d","i","u","m",".","c","o","m">>, "medium">>,
       <<<<"b","e","h","a","n","c","e",".","n","e","t">>, "behance">>,
       <<<<"d","r","i","b","b","b","l","e",".","c","o","m">>, "dribbble">>,
       <<<<"g","i","t","h","u","b",".","c","o","m">>, "github">>,
       <<<<"g","i","t","l","a","b",".","c","o","m">>, "gitlab">> >>

\* urlparse(url).netloc.lower().replace('www.', ''), looked up; "none" is None
identify_platform(url) ==
    LET domain == Replace(Lower(url.netloc), W_www, <<>>)
    IN  IF \E i \in DOMAIN domain_to_platform : domain_to_platform[i][1] = domain
        THEN domain_to_platform[CHOOSE i \in DOMAIN domain_to_platform :
                                    domain_to_platform[i][1] = domain][2]
        ELSE "none"

\* profiles[platform] = data on a dict kept as the sequence of its items in
\* insertion order: an existing key keeps its place and takes the new value
DictPut(profiles, data) ==
    IF \E i \in DOMAIN profiles : profiles[i].platform = data.platform
    THEN [i \in DOMAIN profiles |->
            IF profiles[i].platform = data.platform THEN data ELSE profiles[i]]
    ELSE Append(profiles, data)

\* the loop of parse_sherlock_output / parse_sherlock_stdout over the URLs
\* found; hits[i] = [url, head_ok], head_ok what check_profile_exists(url)
\* answers; from_file says which of the two parsers runs
RECURSIVE ParseHits(_, _, _, _)
ParseHits(hits, username, from_file, profiles) ==
    IF hits = <<>> THEN profiles
    ELSE LET url == Head(hits).url
             platform == identify_platform(url)
             data == [url |-> url, username |-> username, platform |-> platform,
                      verified |-> IF from_file THEN Head(hits).head_ok ELSE TRUE,
                      source |-> "sherlock"]
         IN  ParseHits(Tail(hits), username, from_file,
                       IF platform # "none" THEN DictPut(profiles, data) ELSE profiles)

parse_sherlock_output(hits, username) == ParseHits(hits, username, TRUE, <<>>)
parse_sherlock_stdout(hits, username) == ParseHits(hits, username, FALSE, <<>>)

\* sherlock_search: what it returns for one probe outcome
sherlock_search(username, outcome) ==
    CASE outcome.kind = "timeout" -> <<>>
      [] outcome.kind = "error"   -> <<>>
      [] outcome.kind = "file"    -> parse_sherlock_output(outcome.hits, username)
      [] outcome.kind = "stdout"  -> parse_sherlock_stdout(outcome.hits, username)

ExactBonus == 100
SubstringBonus == 70
WordBonus == 40
LongUsernameLen == 20
LongUsernamePenalty == 10

platform_priority(platform) ==
    CASE platform = "linkedin"  -> 30
      [] platform = "instagram" -> 25
      [] platform = "facebook"  -> 20
      [] platform = "twitter"   -> 15
      [] platform = "youtube"   -> 10
      [] platform = "tiktok"    -> 5
      [] OTHER -> 0

\* str.split() of a string: its maximal runs of non-space characters
RECURSIVE SplitWords(_, _, _)
SplitWords(s, i, cur) ==
    IF i > Len(s) THEN (IF cur = <<>> THEN {} ELSE {cur})
    ELSE IF IsSpace(s[i])
         THEN (IF cur = <<>> THEN {} ELSE {cur}) \cup SplitWords(s, i + 1, <<>>)
         ELSE SplitWords(s, i + 1, Append(cur, s[i]))

\* calculate_relevance with the length test off by one: len(username) >= 20
calculate_relevance_penalty_at_20(username, business_name, platform) ==
    LET business_clean == original_clean(business_name)
        similarity ==
            IF username = business_clean THEN ExactBonus
            ELSE IF Contains(business_clean, username) THEN SubstringBonus
            ELSE 0
        score == similarity + platform_priority(platform)
                 - (IF Len(username) >= LongUsernameLen THEN LongUsernamePenalty ELSE 0)
    IN  IF score > 0 THEN score ELSE 0

calculate_relevance(username, business_name, platform) ==
    LET business_clean == original_clean(business_name)
        similarity ==
            IF username = business_clean THEN ExactBonus
            ELSE IF Contains(business_clean, username) THEN SubstringBonus
            ELSE IF \E word \in SplitWords(business_clean, 1, <<>>) :
                        Contains(word, username) THEN WordBonus
            ELSE 0
        score == similarity + platform_priority(platform)
                 - (IF Len(username) > LongUsernameLen THEN LongUsernamePenalty ELSE 0)
    IN  IF score > 0 THEN score ELSE 0

ConfidenceCap == 90

\* min(0.9, relevance / 100), in hundredths
confidence_of(relevance) == IF relevance < ConfidenceCap THEN relevance ELSE ConfidenceCap

\* the loops of process_results over all_results (a dict kept as the sequence
\* of its items [username, profiles]); acc = [processed, seen_urls]
RECURSIVE ProcessLoop(_, _, _, _, _)
ProcessLoop(all_results, business_name, u, p, acc) ==
    IF u > Len(all_results) THEN acc.processed
    ELSE IF p > Len(all_results[u].profiles)
         THEN ProcessLoop(all_results, business_name, u + 1, 1, acc)
    ELSE LET username == all_results[u].username
             profile_data == all_results[u].profiles[p]
             url == profile_data.url
             relevance == calculate_relevance(username, business_name, profile_data.platform)
             processed_profile ==
                 [name |-> business_name, platform |-> profile_data.platform,
                  profile_url |-> url, username |-> username,
                  verified |-> profile_data.verified, source |-> "sherlock_osint",
                  relevance_score |-> relevance,
                  confidence |-> confidence_of(relevance),
                  search_method |-> "osint"]
         IN  IF url \in acc.seen_urls
             THEN ProcessLoop(all_results, business_name, u, p + 1, acc)
             ELSE ProcessLoop(all_results, business_name, u, p + 1,
                              [processed |-> Append(acc.processed, processed_profile),
                               seen_urls |-> acc.seen_urls \cup {url}])

\* list.sort(key=relevance_score, reverse=True): stable, so equal scores keep
\* their order; x goes after every element scoring at least as much
RECURSIVE InsertDesc(_, _)
InsertDesc(sorted, x) ==
    IF sorted = <<>> THEN <<x>>
    ELSE IF Head(sorted).relevance_score >= x.relevance_score
         THEN <<Head(sorted)>> \o InsertDesc(Tail(sorted), x)
         ELSE <<x>> \o sorted

RECURSIVE SortDesc(_, _)
SortDesc(list, sorted) ==
    IF list = <<>> THEN sorted ELSE SortDesc(Tail(list), InsertDesc(sorted, Head(list)))

ResultLimit == 20

Take(list, n) == SubSeq(list, 1, IF Len(list) < n THEN Len(list) ELSE n)

process_results(all_results, business_name) ==
    Take(SortDesc(ProcessLoop(all_results, business_name, 1, 1,
                              [processed |-> <<>>, seen_urls |-> {}]), <<>>),
         ResultLimit)

(***************************************************************************)
(* main.py: parse_sherlock_output, generate_fallback_profiles,             *)
(* generate_fallback_search, execute_sherlock_search                       *)
(*                                                                         *)
(* Here a platform and a URL are strings cut out of the prober's output,   *)
(* so both are character sequences.  confidence is in hundredths.          *)
(***************************************************************************)
W_http   == <<"h","t","t","p">>
W_found  == <<"[","+","]">>
W_colon  == <<":"," ">>

\* str.split(sep) for a non-empty sep
RECURSIVE SplitFrom(_, _, _, _)
SplitFrom(s, sep, i, cur) ==
    IF i > Len(s) THEN <<cur>>
    ELSE IF MatchAt(s, sep, i)
         THEN <<cur>> \o SplitFrom(s, sep, i + Len(sep), <<>>)
         ELSE SplitFrom(s, sep, i + 1, Append(cur, s[i]))

Split(s, sep) == SplitFrom(s, sep, 1, <<>>)

ParsedConfidence == 90
ParsedRelevance == 85
FallbackConfidence == 70
FallbackRelevance == 75

\* the profile dict both producers of main.py build
MainProfile(platform, url, username, business_name, confidence, relevance) ==
    [id |-> platform \o <<"_">> \o username, name |-> business_name,
     platform |-> platform, profile_url |-> url, username |-> username,
     verified |-> FALSE, confidence |-> confidence, relevance_score |-> relevance]

\* parse_sherlock_output; output is the sequence of the lines of stdout
RECURSIVE main_parse_sherlock_output(_, _, _)
main_parse_sherlock_output(output, username, business_name) ==
    IF output = <<>> THEN <<>>
    ELSE LET line == Strip(Head(output))
             parts == Split(line, W_colon)
             rest == main_parse_sherlock_output(Tail(output), username, business_name)
         IN  IF /\ line # <<>> /\ Contains(W_http, line) /\ Contains(W_found, line)
                /\ Len(parts) >= 2
             THEN <<MainProfile(Lower(Strip(Replace(parts[1], W_found, <<>>))),
                                Strip(parts[2]), username, business_name,
                                ParsedConfidence, ParsedRelevance)>> \o rest
             ELSE rest

\* the dict platforms of generate_fallback_profiles, as (platform, URL prefix)
\* pairs in insertion order
fallback_platforms ==
    << <<<<"i","n","s","t","a","g","r","a","m">>,
         <<"h","t","t","p","s",":","/","/","i","n","s","t","a","g","r","a","m",".","c","o","m","/">>>>,
       <<<<"f","a","c","e","b","o","o","k">>,
         <<"h","t","t","p","s",":","/","/","f","a","c","e","b","o","o","k",".","c","o","m","/">>>>,
       <<<<"l","i","n","k","e","d","i","n">>,
         <<"h","t","t","p","s",":","/","/","w","w","w",".","l","i","n","k","e","d","i","n",".","c","o","m","/","c","o","m","p","a","n","y","/">>>>,
       <<<<"t","w","i","t","t","e","r">>,
         <<"h","t","t","p","s",":","/","/","x",".","c","o","m","/">>>>,
       <<<<"t","i","k","t","o","k">>,
         <<"h","t","t","p","s",":","/","/","w","w","w",".","t","i","k","t","o","k",".","c","o","m","/","@">>>>,
       <<<<"y","o","u","t","u","b","e">>,
         <<"h","t","t","p","s",":","/","/","w","w","w",".","y","o","u","t","u","b","e",".","c","o","m","/","@">>>> >>

generate_fallback_profiles(username, business_name) ==
    [i \in DOMAIN fallback_platforms |->
        MainProfile(fallback_platforms[i][1], fallback_platforms[i][2] \o username,
                    username, business_name, FallbackConfidence, FallbackRelevance)]

generate_fallback_search(business_name) ==
    LET username == AlnumOnly(Lower(business_name))
        profiles == generate_fallback_profiles(username, business_name)
    IN  [profiles |-> profiles, total_profiles_found |-> Len(profiles),
         searched_usernames |-> <<username>>]

MainResultLimit == 20

\* execute_sherlock_search, its locals after generate_business_usernames
\* returned usernames; status: "probing", "returned" or "aborted" (the outer
\* except)
SearchBegin(business_name, usernames) ==
    [business_name |-> business_name, usernames |-> usernames,
     searched_usernames |-> <<>>, all_profiles |-> <<>>, status |-> "probing"]

\* an inner except clause that names TimeoutExpired alone
CaughtTimeoutOnly(kind) == kind = "timeout"

\* what the inner except clause does: it catches TimeoutExpired and
\* FileNotFoundError only
CaughtByInner(kind) == kind \in {"timeout", "notfound"}

\* one pass of the loop `for username in usernames`, the prober doing outcome:
\*   "ok"       subprocess.run returned, returncode 0 and stdout = outcome.lines
\*   "nonzero"  subprocess.run returned a non-zero returncode
\*   "timeout"  it raised TimeoutExpired
\*   "notfound" it raised FileNotFoundError
\*   "error"    it raised anything else
ProbeStep(st, outcome) ==
    LET username == st.usernames[Len(st.searched_usernames) + 1]
        searched == Append(st.searched_usernames, username)
    IN  CASE outcome.kind = "ok" ->
               [st EXCEPT !.searched_usernames = searched,
                          !.all_profiles = @ \o main_parse_sherlock_output(
                                                  outcome.lines, username, st.business_name)]
          [] outcome.kind = "nonzero" ->
               [st EXCEPT !.searched_usernames = searched]
          [] CaughtByInner(outcome.kind) ->
               [st EXCEPT !.searched_usernames = searched,
                          !.all_profiles = @ \o generate_fallback_profiles(
                                                  username, st.business_name)]
          [] OTHER ->
               [st EXCEPT !.searched_usernames = searched, !.status = "aborted"]

\* the loop has run out of usernames
ProbingOver(st) == Len(st.searched_usernames) = Len(st.usernames)

\* what execute_sherlock_search returns
SearchResult(st) ==
    IF st.status = "aborted" THEN generate_fallback_search(st.business_name)
    ELSE [profiles |-> Take(st.all_profiles, MainResultLimit),
          total_profiles_found |-> Len(st.all_profiles),
          searched_usernames |-> st.searched_usernames]

(***************************************************************************)
(* main.py: handler, generate_query_hash, get_cached_result, cache_result  *)
(***************************************************************************)
MinQueryLen == 2
InitialHitCount == 1

\* generate_query_hash: the MD5 digest of f"{query.lower().strip()}_{platform}"
\* is stood for by the text it digests (no two texts modelled collide)
generate_query_hash(query, platform) == <<Strip(Lower(query)), platform>>

\* a response: statusCode and the fields of the JSON body the handler sets
Response(statusCode, success, message, query, results, cached, hitCount, totalFound, searchedUsernames) ==
    [statusCode |-> statusCode, success |-> success, message |-> message,
     query |-> query, results |-> results, cached |-> cached, hitCount |-> hitCount,
     totalFound |-> totalFound, searchedUsernames |-> searchedUsernames]

NoResponse == Response(0, FALSE, "", <<>>, <<>>, FALSE, 0, 0, <<>>)

\* the early returns of handler: OPTIONS, a method other than POST, a query
\* missing or too short
OptionsResponse == Response(200, FALSE, "", <<>>, <<>>, FALSE, 0, 0, <<>>)
MethodNotAllowed == Response(405, FALSE, "Method not allowed", <<>>, <<>>, FALSE, 0, 0, <<>>)
BadRequest ==
    Response(400, FALSE, "Query must be at least 2 characters", <<>>, <<>>, FALSE, 0, 0, <<>>)

\* the except clause of handler
ServerError == Response(500, FALSE, "Sherlock OSINT search failed", <<>>, <<>>, FALSE, 0, 0, <<>>)

\* final_result
FinalResult(query, sherlock_results) ==
    [success |-> TRUE, query |-> query, platform |-> "sherlock_osint",
     results |-> sherlock_results.profiles, method |-> "osint",
     totalFound |-> sherlock_results.total_profiles_found,
     searchedUsernames |-> sherlock_results.searched_usernames, source |-> "sherlock"]

\* the response after a search: {**final_result, 'message': 'OSINT search completed'}
FreshResponse(final_result) ==
    Response(200, final_result.success, "OSINT search completed", final_result.query,
             final_result.results, FALSE, 0, final_result.totalFound,
             final_result.searchedUsernames)

\* a handler that lets an exception of the cache write through to its own
\* except clause
WriteFailureSurfaces(final_result, raised) ==
    IF raised THEN ServerError ELSE FreshResponse(final_result)

\* the response once cache_result has returned: it catches whatever the
\* insert raised, so the handler goes on to its return
ResponseAfterCacheWrite(final_result, raised) == FreshResponse(final_result)

\* the row cache_result inserts
CacheRow(query, platform, api_response) ==
    [query_hash |-> generate_query_hash(query, platform), query_text |-> query,
     platform |-> platform, response_data |-> api_response,
     hit_count |-> InitialHitCount]

NoRow == [query_hash |-> <<>>, query_text |-> <<>>, platform |-> "",
          response_data |-> FinalResult(<<>>, [profiles |-> <<>>, total_profiles_found |-> 0,
                                               searched_usernames |-> <<>>]),
          hit_count |-> 0]

\* select('*').eq('query_hash', h).eq('platform', platform).single()
SelectRows(table, query, platform) ==
    {row \in table : /\ row.query_hash = generate_query_hash(query, platform)
                     /\ row.platform = platform}

\* the hit count get_cached_result returns without adding one
ReturnedStale(row) == row.hit_count

\* 'hit_count': result.data['hit_count'] + 1 in the update
UpdatedHitCount(row) == row.hit_count + 1

\* 'hitCount': result.data['hit_count'] + 1 in the dict returned
ReturnedHitCount(row) == row.hit_count + 1

\* update({...}).eq('id', row id): the row read is the one rewritten
UpdateRow(table, row) ==
    {IF r.query_hash = row.query_hash /\ r.platform = row.platform
     THEN [r EXCEPT !.hit_count = UpdatedHitCount(row)] ELSE r : r \in table}

\* the response on a cache hit: {**cached_result, 'cached': True, 'message': ...}
CachedResponse(row) ==
    Response(200, TRUE, "Cached OSINT results", row.query_text,
             row.response_data.results, TRUE, ReturnedHitCount(row), 0, <<>>)

\* list(set(...))[:5] under one hash seed: the candidates in the order the
\* seed gives them
RECURSIVE InOrder(_, _)
InOrder(order, S) ==
    IF order = <<>> THEN <<>>
    ELSE IF Head(order) \in S THEN <<Head(order)>> \o InOrder(Tail(order), S)
         ELSE InOrder(Tail(order), S)

UsernamesUnder(order, business_name) ==
    Take(InOrder(order, UsernameSet(business_name)), MainMaxUsernames)

(***************************************************************************)
(* State                                                                   *)
(***************************************************************************)
VARIABLES
    gen_pc,      \* generators: "start", then which generator returned
    gen_name,    \* generators: the business name passed in
    gen_out,     \* generators: the list returned
    rk_pc,       \* search_business_profiles: "probing", then "done"
    rk_name,     \* search_business_profiles: business_name
    rk_searched, \* search_business_profiles: the usernames probed so far
    all_results, \* search_business_profiles: all_results, in insertion order
    rk_out,      \* search_business_profiles: the profiles returned
    tool_present,   \* execute_sherlock_search: can the prober be started at all
    search,         \* execute_sherlock_search: its locals
    search_result,  \* execute_sherlock_search: what it returned
    supabase,       \* handler: is there a Supabase client (create_client and both env vars)
    hash_order,     \* handler: the iteration order the process's hash seed gives strings
    prober_mode,    \* handler: what every run of the prober does in this run
    api_cache,      \* handler: the rows of the table api_cache
    store_failures, \* handler: how many calls to the store have raised so far
    req             \* handler: each request's position, locals and response

genVars == <<gen_pc, gen_name, gen_out>>
rankVars == <<rk_pc, rk_name, rk_searched, all_results, rk_out>>
searchVars == <<tool_present, search, search_result>>
handlerVars == <<supabase, hash_order, prober_mode, api_cache, store_failures, req>>
vars == <<genVars, rankVars, searchVars, handlerVars>>

(***************************************************************************)
(* Inputs                                                                  *)
(***************************************************************************)
N_AcmeInc == <<"A","c","m","e"," ","I","n","c">>
N_TestCompany == <<"t","e","s","t"," ","c","o","m","p","a","n","y">>
S_acme == <<"a","c","m","e">>

\* the longest business name drawn character by character
MaxNameLen == 2
GenAlphabet == {"a", "C", "o", " ", "."}

RECURSIVE StringsOfLen(_, _)
StringsOfLen(A, n) ==
    IF n = 0 THEN {<<>>}
    ELSE {<<c>> \o t : c \in A, t \in StringsOfLen(A, n - 1)}

GenNames ==
    UNION {StringsOfLen(GenAlphabet, n) : n \in 2..MaxNameLen}
    \cup {N_AcmeInc, N_TestCompany}

(***************************************************************************)
(* The two username generators as operations                               *)
(***************************************************************************)

NoResult == [profiles |-> <<>>, total_profiles_found |-> 0, searched_usernames |-> <<>>]

NotStarted(business_name) ==
    [business_name |-> business_name, usernames |-> <<>>,
     searched_usernames |-> <<>>, all_profiles |-> <<>>, status |-> "start"]

SearchIdle ==
    /\ tool_present = TRUE
    /\ search = [NotStarted(<<>>) EXCEPT !.status = "off"]
    /\ search_result = NoResult

HandlerIdle ==
    /\ supabase = FALSE /\ hash_order = <<>> /\ prober_mode = "off" /\ api_cache = {}
    /\ store_failures = 0 /\ req = <<>>

RankIdle ==
    /\ rk_pc = "off" /\ rk_name = <<>> /\ rk_searched = <<>>
    /\ all_results = <<>> /\ rk_out = <<>>

GenInit ==
    /\ gen_pc = "start"
    /\ gen_name \in GenNames
    /\ gen_out = <<>>
    /\ RankIdle
    /\ SearchIdle
    /\ HandlerIdle

\* main.py generate_business_usernames(gen_name)
GenerateMain ==
    /\ gen_pc = "start"
    /\ \E r \in generate_business_usernames(gen_name) : gen_out' = r
    /\ gen_pc' = "main"
    /\ UNCHANGED <<gen_name, rankVars, searchVars, handlerVars>>

\* SherlockBusinessSearch().generate_business_usernames(gen_name)
GenerateClass ==
    /\ gen_pc = "start"
    /\ \E r \in class_generate_business_usernames(gen_name) : gen_out' = r
    /\ gen_pc' = "class"
    /\ UNCHANGED <<gen_name, rankVars, searchVars, handlerVars>>

GenNext == GenerateMain \/ GenerateClass

SpecGen == GenInit /\ [][GenNext]_vars

(***************************************************************************)
(* SherlockBusinessSearch.search_business_profiles on the usernames and    *)
(* the prober's answers drawn from bounded sets                            *)
(***************************************************************************)
\* the most usernames one search probes, and the most URLs one probe prints
MaxProbed == 2
MaxUrls == 2
\* usernames are drawn from the candidates at most this much longer than the
\* cleaned business name
MaxAffixLen == 2

\* a business name of n letters
LongName(n) == [i \in 1..n |-> "a"]

RankNames ==
    {N_AcmeInc}
    \cup {LongName(n) : n \in {ClassMinLen, LongUsernameLen, LongUsernameLen + 1, ClassMaxLen}}

RankUsernames(name) ==
    {u \in valid_usernames(name) : Len(u) <= Len(original_clean(name)) + MaxAffixLen}

H_instagram  == <<"i","n","s","t","a","g","r","a","m",".","c","o","m">>
H_Instagram  == <<"I","n","s","t","a","g","r","a","m",".","c","o","m">>
H_wwwlinkedin == <<"w","w","w",".","l","i","n","k","e","d","i","n",".","c","o","m">>
H_example    == <<"e","x","a","m","p","l","e",".","o","r","g">>
RankHosts == {H_instagram, H_Instagram, H_wwwlinkedin, H_example}

UrlPool == {[netloc |-> h, path |-> <<"/","p">>] : h \in RankHosts}
HitPool == {[url |-> u, head_ok |-> b] : u \in UrlPool, b \in BOOLEAN}

RECURSIVE SeqsUpTo(_, _)
SeqsUpTo(S, n) ==
    IF n = 0 THEN {<<>>}
    ELSE {<<>>} \cup {<<x>> \o t : x \in S, t \in SeqsUpTo(S, n - 1)}

\* what one run of the prober can do
ProbeOutcomes ==
    {[kind |-> k, hits |-> <<>>] : k \in {"timeout", "error"}}
    \cup {[kind |-> k, hits |-> h] : k \in {"file", "stdout"}, h \in SeqsUpTo(HitPool, MaxUrls)}

GenIdle == gen_pc = "off" /\ gen_name = <<>> /\ gen_out = <<>>

RankInit ==
    /\ rk_pc = "probing"
    /\ rk_name \in RankNames
    /\ rk_searched = <<>>
    /\ all_results = <<>>
    /\ rk_out = <<>>
    /\ GenIdle
    /\ SearchIdle
    /\ HandlerIdle

\* one pass of the loop: results = sherlock_search(username);
\* if results: all_results[username] = results
SearchUsername ==
    /\ rk_pc = "probing"
    /\ Len(rk_searched) < MaxProbed
    /\ \E username \in RankUsernames(rk_name) \ Range(rk_searched), outcome \in ProbeOutcomes :
          LET results == sherlock_search(username, outcome)
          IN  /\ rk_searched' = Append(rk_searched, username)
              /\ all_results' =
                    IF results # <<>>
                    THEN Append(all_results, [username |-> username, profiles |-> results])
                    ELSE all_results
    /\ UNCHANGED <<rk_pc, rk_name, rk_out, genVars, searchVars, handlerVars>>

\* after the loop: processed_results = process_results(all_results, business_name)
ProcessResults ==
    /\ rk_pc = "probing"
    /\ rk_out' = process_results(all_results, rk_name)
    /\ rk_pc' = "done"
    /\ UNCHANGED <<rk_name, rk_searched, all_results, genVars, searchVars, handlerVars>>

RankNext == SearchUsername \/ ProcessResults

SpecRank == RankInit /\ [][RankNext]_vars

(***************************************************************************)
(* main.py execute_sherlock_search, one call, probe by probe               *)
(***************************************************************************)
\* the most lines of output one run of the prober prints
MaxLines == 1

N_Co == <<"C","o">>
SearchNames == {N_TestCompany, N_Co}

L_found == <<"[","+","]"," ","I","n","s","t","a","g","r","a","m",":"," ","h","t","t","p","s",":","/","/","i","n","s","t","a","g","r","a","m",".","c","o","m","/">>
L_notfound == <<"[","-","]"," ","F","a","c","e","b","o","o","k",":"," ","N","o","t"," ","F","o","u","n","d","!">>

\* the lines the prober can print for a username
LinePool(username) == {L_found \o username, L_notfound}

\* what one subprocess.run can do; with the tool absent it can only raise
\* FileNotFoundError
MainOutcomes(username, present) ==
    IF ~present THEN {[kind |-> "notfound", lines |-> <<>>]}
    ELSE {[kind |-> k, lines |-> <<>>] : k \in {"nonzero", "timeout", "notfound", "error"}}
         \cup {[kind |-> "ok", lines |-> l] : l \in SeqsUpTo(LinePool(username), MaxLines)}

SearchInit ==
    /\ tool_present \in BOOLEAN
    /\ \E name \in SearchNames : search = NotStarted(name)
    /\ search_result = NoResult
    /\ GenIdle
    /\ RankIdle
    /\ HandlerIdle

\* usernames = generate_business_usernames(business_name)
SearchGenerate ==
    /\ search.status = "start"
    /\ \E usernames \in generate_business_usernames(search.business_name) :
          search' = SearchBegin(search.business_name, usernames)
    /\ UNCHANGED <<tool_present, search_result, genVars, rankVars, handlerVars>>

\* one pass of the loop
SearchProbe ==
    /\ search.status = "probing"
    /\ ~ProbingOver(search)
    /\ \E outcome \in MainOutcomes(search.usernames[Len(search.searched_usernames) + 1],
                                   tool_present) :
          search' = ProbeStep(search, outcome)
    /\ UNCHANGED <<tool_present, search_result, genVars, rankVars, handlerVars>>

\* the return after the loop
SearchReturn ==
    /\ search.status = "probing"
    /\ ProbingOver(search)
    /\ search_result' = SearchResult(search)
    /\ search' = [search EXCEPT !.status = "returned"]
    /\ UNCHANGED <<tool_present, genVars, rankVars, handlerVars>>

\* the outer except: return generate_fallback_search(...)
SearchFallback ==
    /\ search.status = "aborted"
    /\ search_result' = SearchResult(search)
    /\ search' = [search EXCEPT !.status = "fellback"]
    /\ UNCHANGED <<tool_present, genVars, rankVars, handlerVars>>

SearchNext == SearchGenerate \/ SearchProbe \/ SearchReturn \/ SearchFallback

SpecSearch == SearchInit /\ [][SearchNext]_vars

(***************************************************************************)
(* main.py handler: concurrent requests against one api_cache table        *)
(***************************************************************************)
\* the number of requests, and of calls to the store that may raise
NumRequests == 2
MaxStoreFailures == 1
\* the most hits a row left in the table by earlier requests has counted
MaxPriorHits == 2

Requests == 1..NumRequests

Q_Co    == <<"C","o">>
Q_co_sp == <<"c","o"," ">>
Q_c     == <<" ","c">>

\* the bodies a request can carry: a query, no query key, or no JSON at all
HandlerQueries == {Q_Co, Q_co_sp, Q_c}
\* event['body']: an object with a text under 'query', an object without
\* 'query', an object whose 'query' is null, and a body json.loads rejects
\* (absent or not JSON)
Bodies == {[json |-> TRUE, has_query |-> TRUE, text |-> TRUE, query |-> q] : q \in HandlerQueries}
          \cup {[json |-> TRUE, has_query |-> FALSE, text |-> FALSE, query |-> <<>>],
                [json |-> TRUE, has_query |-> TRUE, text |-> FALSE, query |-> <<>>],
                [json |-> FALSE, has_query |-> FALSE, text |-> FALSE, query |-> <<>>]}
NoEvent ==
    [method |-> "none",
     body |-> [json |-> FALSE, has_query |-> FALSE, text |-> FALSE, query |-> <<>>]]
Methods == {"POST", "OPTIONS", "GET"}

\* every candidate username of every query the handler lets through
AllCandidates ==
    UNION {UsernameSet(Strip(q)) : q \in {x \in HandlerQueries : Len(Strip(x)) >= MinQueryLen}}

\* One run of the handler specification has one prober behaviour: every
\* subprocess.run of the run ends the same way.  (SpecSearch lets each probe
\* of a search end in its own way.)
ProberModes == {"found", "nonzero", "timeout", "notfound", "error"}

ModeOutcome(mode, username) ==
    IF mode = "found" THEN [kind |-> "ok", lines |-> <<L_found \o username>>]
    ELSE [kind |-> mode, lines |-> <<>>]

\* a row an earlier request for "Co" left behind: inserted after a search that
\* fell back (the prober raised), and read hit_count - 1 times since
PriorRow(hit_count) ==
    [CacheRow(Q_Co, "sherlock_osint", FinalResult(Q_Co, generate_fallback_search(Q_Co)))
        EXCEPT !.hit_count = hit_count]

PriorTables == {{}} \cup {{PriorRow(h)} : h \in InitialHitCount..MaxPriorHits}

Idle ==
    [pc |-> "idle", event |-> NoEvent, query |-> <<>>, row |-> NoRow,
     st |-> NotStarted(<<>>), cache_raised |-> "none", response |-> NoResponse]

Init ==
    /\ supabase \in BOOLEAN
    /\ prober_mode \in ProberModes
    /\ tool_present = (prober_mode # "notfound")
    /\ hash_order \in Arrangements(AllCandidates, Cardinality(AllCandidates))
    /\ api_cache \in (IF supabase THEN PriorTables ELSE {{}})
    /\ store_failures = 0
    /\ req = [r \in Requests |-> Idle]
    /\ search = [NotStarted(<<>>) EXCEPT !.status = "off"]
    /\ search_result = NoResult
    /\ GenIdle
    /\ RankIdle

otherVars ==
    <<genVars, rankVars, search, search_result, tool_present, supabase, hash_order, prober_mode>>

Done(r, response) == req' = [req EXCEPT ![r].pc = "done", ![r].response = response]

\* get_cached_result returned None: on to execute_sherlock_search, whose
\* first statement generates the usernames
Miss(r, raised) ==
    req' = [req EXCEPT ![r].pc = "search",
                       ![r].cache_raised = raised,
                       ![r].st = SearchBegin(req[r].query,
                                             UsernamesUnder(hash_order, req[r].query))]

\* handler, from its entry to the call of get_cached_result
\* (requests are interchangeable: they are taken up in the order of their numbers)
Receive(r) ==
    /\ req[r].pc = "idle"
    /\ IF r = 1 THEN TRUE ELSE req[r - 1].pc # "idle"
    /\ \E method \in Methods, body \in Bodies :
          LET query == Strip(body.query)
              event == [method |-> method, body |-> body]
              Return(response) ==
                  req' = [req EXCEPT ![r].pc = "done", ![r].event = event,
                                     ![r].response = response]
          IN  IF method = "OPTIONS" THEN Return(OptionsResponse)
              ELSE IF method # "POST" THEN Return(MethodNotAllowed)
              \* json.loads raises, or None has no strip: the except clause
              ELSE IF ~body.json \/ (body.has_query /\ ~body.text) THEN Return(ServerError)
              ELSE IF query = <<>> \/ Len(query) < MinQueryLen THEN Return(BadRequest)
              ELSE req' = [req EXCEPT ![r].pc = "lookup", ![r].event = event,
                                      ![r].query = query]
    /\ UNCHANGED <<api_cache, store_failures, otherVars>>

\* get_cached_result with no client: return None
LookupWithoutClient(r) ==
    /\ req[r].pc = "lookup"
    /\ ~supabase
    /\ Miss(r, "none")
    /\ UNCHANGED <<api_cache, store_failures, otherVars>>

\* get_cached_result: the select; a row goes on to the update, no row is a miss
CacheRead(r) ==
    /\ req[r].pc = "lookup"
    /\ supabase
    /\ LET rows == SelectRows(api_cache, req[r].query, "sherlock_osint")
       IN  IF rows = {} THEN Miss(r, "none")
           ELSE \E row \in rows : req' = [req EXCEPT ![r].pc = "update", ![r].row = row]
    /\ UNCHANGED <<api_cache, store_failures, otherVars>>

\* get_cached_result: the select raises; the except clause returns None
CacheReadRaises(r) ==
    /\ req[r].pc = "lookup"
    /\ supabase
    /\ store_failures < MaxStoreFailures
    /\ store_failures' = store_failures + 1
    /\ Miss(r, "read")
    /\ UNCHANGED <<api_cache, otherVars>>

\* get_cached_result: the update of hit_count, then the cached response
CacheUpdate(r) ==
    /\ req[r].pc = "update"
    /\ api_cache' = UpdateRow(api_cache, req[r].row)
    /\ Done(r, CachedResponse(req[r].row))
    /\ UNCHANGED <<store_failures, otherVars>>

\* get_cached_result: the update raises; the except clause returns None
CacheUpdateRaises(r) ==
    /\ req[r].pc = "update"
    /\ store_failures < MaxStoreFailures
    /\ store_failures' = store_failures + 1
    /\ Miss(r, "update")
    /\ UNCHANGED <<api_cache, otherVars>>

\* execute_sherlock_search: one pass of its loop
Probe(r) ==
    /\ req[r].pc = "search"
    /\ req[r].st.status = "probing"
    /\ ~ProbingOver(req[r].st)
    /\ LET username == req[r].st.usernames[Len(req[r].st.searched_usernames) + 1]
       IN  req' = [req EXCEPT ![r].st = ProbeStep(req[r].st, ModeOutcome(prober_mode, username))]
    /\ UNCHANGED <<api_cache, store_failures, otherVars>>

\* the handler moving on to the cache write while the search is still running
SearchOverAtAnyTime(r) == req[r].pc = "search"

\* execute_sherlock_search has nothing left to do but return
SearchOver(r) ==
    /\ req[r].pc = "search"
    /\ \/ req[r].st.status = "aborted"
       \/ req[r].st.status = "probing" /\ ProbingOver(req[r].st)

final_result(r) == FinalResult(req[r].query, SearchResult(req[r].st))

\* the search returns; there is no client, so nothing is cached
RespondWithoutClient(r) ==
    /\ SearchOver(r)
    /\ ~supabase
    /\ Done(r, FreshResponse(final_result(r)))
    /\ UNCHANGED <<api_cache, store_failures, otherVars>>

\* the search returns; cache_result inserts the row
CacheInsert(r) ==
    /\ SearchOver(r)
    /\ supabase
    /\ SelectRows(api_cache, req[r].query, "sherlock_osint") = {}
    /\ api_cache' = api_cache \cup {CacheRow(req[r].query, "sherlock_osint", final_result(r))}
    /\ Done(r, ResponseAfterCacheWrite(final_result(r), FALSE))
    /\ UNCHANGED <<store_failures, otherVars>>

\* the search returns; the key is already in the table and the insert raises
\* the unique-constraint conflict, which cache_result catches
CacheInsertConflict(r) ==
    /\ SearchOver(r)
    /\ supabase
    /\ SelectRows(api_cache, req[r].query, "sherlock_osint") # {}
    /\ req' = [req EXCEPT ![r].pc = "done", ![r].cache_raised = "conflict",
                          ![r].response = ResponseAfterCacheWrite(final_result(r), TRUE)]
    /\ UNCHANGED <<api_cache, store_failures, otherVars>>

\* the search returns; the insert raises for any other reason
CacheInsertRaises(r) ==
    /\ SearchOver(r)
    /\ supabase
    /\ store_failures < MaxStoreFailures
    /\ store_failures' = store_failures + 1
    /\ req' = [req EXCEPT ![r].pc = "done", ![r].cache_raised = "insert",
                          ![r].response = ResponseAfterCacheWrite(final_result(r), TRUE)]
    /\ UNCHANGED <<api_cache, otherVars>>

Next ==
    \E r \in Requests :
        \/ Receive(r)
        \/ LookupWithoutClient(r)
        \/ CacheRead(r)
        \/ CacheReadRaises(r)
        \/ CacheUpdate(r)
        \/ CacheUpdateRaises(r)
        \/ Probe(r)
        \/ RespondWithoutClient(r)
        \/ CacheInsert(r)
        \/ CacheInsertConflict(r)
        \/ CacheInsertRaises(r)

Spec == Init /\ [][Next]_vars

(***************************************************************************)
(* Properties of the username generators (SpecGen)                         *)
(***************************************************************************)
\* the candidates the class generator's length filter lets through but the
\* returned list leaves out
Discarded == valid_usernames(gen_name) \ Range(gen_out)

\* C6: the list the class generator returns is in descending order of
\* username_score, and no candidate it discards scores strictly higher than
\* one it returns
C6_DescendingTopK ==
    gen_pc = "class" =>
        /\ \A i, j \in DOMAIN gen_out :
              i < j => username_score(gen_out[i], gen_name) >= username_score(gen_out[j], gen_name)
        /\ \A d \in Discarded, u \in Range(gen_out) :
              username_score(d, gen_name) <= username_score(u, gen_name)

\* C7: for a business name of at least 2 characters, every candidate either
\* generator returns has 3 to 30 characters and none occurs twice
C7_LengthAndDistinct ==
    (gen_pc \in {"main", "class"} /\ Len(gen_name) >= 2) =>
        /\ \A i \in DOMAIN gen_out : Len(gen_out[i]) >= 3 /\ Len(gen_out[i]) <= 30
        /\ \A i, j \in DOMAIN gen_out : i # j => gen_out[i] # gen_out[j]

\* C8: for "Acme Inc" the returned list contains "acme", and "acme" is its
\* first (highest-scoring) candidate
C8_AcmeFirst ==
    (gen_pc \in {"main", "class"} /\ gen_name = N_AcmeInc) =>
        /\ S_acme \in Range(gen_out)
        /\ gen_out[1] = S_acme

(***************************************************************************)
(* Properties of materialization and ranking (SpecRank)                    *)
(***************************************************************************)
\* a URL with the letter case of its domain folded
FoldDomain(url) == [netloc |-> Lower(url.netloc), path |-> url.path]

\* C4: no two profiles of the output have URLs that are equal after
\* case-folding the domain
C4_DedupCaseFolded ==
    rk_pc = "done" =>
        \A i, j \in DOMAIN rk_out :
            i # j => FoldDomain(rk_out[i].profile_url) # FoldDomain(rk_out[j].profile_url)

\* a returned profile on linkedin whose username is the cleaned business name
ExactLinkedin(p) ==
    /\ p.platform = "linkedin"
    /\ p.username = original_clean(rk_name)
    /\ Len(p.username) >= 3 /\ Len(p.username) <= 30

\* C9 as stated: such a profile has relevance at least 130 and confidence 0.9
C9_AtLeast130 ==
    rk_pc = "done" =>
        \A i \in DOMAIN rk_out :
            ExactLinkedin(rk_out[i]) =>
                rk_out[i].relevance_score >= 130 /\ rk_out[i].confidence = 90

\* C9 amended: such a profile has relevance 130 when its username has at most
\* 20 characters and 120 when it has more, and confidence 0.9 either way
C9_Exact130Or120 ==
    rk_pc = "done" =>
        \A i \in DOMAIN rk_out :
            ExactLinkedin(rk_out[i]) =>
                /\ rk_out[i].relevance_score = (IF Len(rk_out[i].username) > 20 THEN 120 ELSE 130)
                /\ rk_out[i].confidence = 90

\* C9 witness: a search returned such a profile for a username of more than 20
\* characters
C9_Witness ==
    /\ rk_pc = "done"
    /\ \E i \in DOMAIN rk_out : ExactLinkedin(rk_out[i]) /\ Len(rk_out[i].username) > 20

(***************************************************************************)
(* Properties of one search of the Netlify function (SpecSearch)           *)
(***************************************************************************)
SearchDone == search.status \in {"returned", "fellback"}

FallbackPlatformNames == {fallback_platforms[i][1] : i \in DOMAIN fallback_platforms}

\* every profile is a fallback profile: confidence 0.7, relevance 75, unverified
AllFallbackValued(profiles) ==
    \A i \in DOMAIN profiles :
        /\ profiles[i].confidence = 70
        /\ profiles[i].relevance_score = 75
        /\ profiles[i].verified = FALSE
        /\ profiles[i].platform \in FallbackPlatformNames

\* the search for "test company" ended with the prober unavailable
TestCompanyToolAbsent ==
    /\ SearchDone
    /\ search.business_name = N_TestCompany
    /\ ~tool_present

\* C1 as stated: exactly six profiles are returned, one per fallback platform,
\* each with confidence 0.7, relevance 75 and verified = false
C1_ExactlySix ==
    TestCompanyToolAbsent =>
        /\ Len(search_result.profiles) = 6
        /\ \A pl \in FallbackPlatformNames :
              Cardinality({i \in DOMAIN search_result.profiles :
                              search_result.profiles[i].platform = pl}) = 1
        /\ AllFallbackValued(search_result.profiles)

\* C1 amended: 20 profiles are returned out of the 30 found (six for each of
\* the five candidate usernames), every one on one of the six fallback
\* platforms with confidence 0.7, relevance 75 and verified = false, and each
\* of the six platforms occurs among them
C1_TwentyOfThirty ==
    TestCompanyToolAbsent =>
        /\ Len(search_result.profiles) = 20
        /\ search_result.total_profiles_found = 30
        /\ Len(search_result.searched_usernames) = 5
        /\ {search_result.profiles[i].platform : i \in DOMAIN search_result.profiles}
              = FallbackPlatformNames
        /\ AllFallbackValued(search_result.profiles)

\* C1 witness: such a search has returned its profiles
C1_Witness == TestCompanyToolAbsent /\ search_result.profiles # <<>>

\* the profiles parsed from the probes that ran to the end
Collected ==
    {search.all_profiles[i] : i \in
        {j \in DOMAIN search.all_profiles :
            search.all_profiles[j].relevance_score = ParsedRelevance}}

\* C2: whatever a probe fails with, a search that has collected profiles from
\* other probes is not aborted and those profiles are in the returned result
C2_FailuresIsolated ==
    (SearchDone /\ Collected # {}) =>
        /\ search.status = "returned"
        /\ \A p \in Collected : p \in Range(search_result.profiles)

\* C5: the returned profile list has at most 20 entries and is in
\* non-increasing order of relevance score
C5_BoundedAndSorted ==
    SearchDone =>
        /\ Len(search_result.profiles) <= 20
        /\ \A i, j \in DOMAIN search_result.profiles :
              i < j => search_result.profiles[i].relevance_score
                          >= search_result.profiles[j].relevance_score

(***************************************************************************)
(* Properties of the handler and its cache (Spec)                          *)
(***************************************************************************)
\* the rows stored under request r's query and the tag sherlock_osint
StoredFor(table, r) == SelectRows(table, req[r].query, "sherlock_osint")

\* request r's step is one in which no call to the store raised
StoreAnswered == store_failures' = store_failures

C10_CacheFailureHidden ==
    \A r \in Requests :
        (req[r].pc = "done" /\ req[r].cache_raised # "none") =>
            /\ req[r].response.statusCode = 200
            /\ req[r].response.success = TRUE
            /\ req[r].response.cached = FALSE
            /\ req[r].response.results = SearchResult(req[r].st).profiles
            /\ req[r].response.query = req[r].query
            /\ req[r].st.status \in {"probing", "aborted"}

\* C10 witness: the insert ran into a row already stored under the key, one
\* request's read having raised, and the request was answered all the same
C10_Witness ==
    \E r \in Requests :
        /\ req[r].pc = "done"
        /\ req[r].cache_raised = "conflict"
        /\ store_failures > 0
        /\ req[r].response.results # <<>>

\* request r is a POST whose query is missing (no body, no 'query' entry, or a
\* null 'query') or has fewer than 2 characters after trimming
InvalidQuery(r) ==
    /\ req[r].event.method = "POST"
    /\ \/ ~req[r].event.body.json
       \/ ~req[r].event.body.has_query
       \/ ~req[r].event.body.text
       \/ Len(Strip(req[r].event.body.query)) < MinQueryLen

\* request r made no cache lookup, ran no probe and wrote no row
NothingAttempted(r) ==
    /\ req[r].row = NoRow
    /\ req[r].st = NotStarted(<<>>)
    /\ req[r].cache_raised = "none"

\* C11: every POST request whose query is missing or shorter than 2 characters
\* after trimming is answered at once with status 400 and an error message,
\* without a cache lookup, a probe or a cache write
C11_BadRequestImmediately ==
    \A r \in Requests :
        (req[r].pc # "idle" /\ InvalidQuery(r)) =>
            /\ req[r].pc = "done"
            /\ req[r].response.statusCode = 400
            /\ req[r].response.message # ""
            /\ NothingAttempted(r)

\* the keys of the rows a step adds to the table
InsertedKeys == {row.query_hash : row \in api_cache'} \ {row.query_hash : row \in api_cache}

\* the probe loop of a search has ended: every candidate username was probed, or
\* an exception left the loop
LoopEnded(st) ==
    \/ st.status = "aborted"
    \/ st.status = "probing" /\ Len(st.searched_usernames) = Len(st.usernames)

\* C12: within one valid request the cache is consulted before any probe; on a
\* cache hit the request is answered from the cache with no probe and no
\* insert; on a miss a row is inserted at most once, by the step that ends the
\* request, and only when the probe loop over the candidate usernames has ended
C12_CacheBeforeProbes ==
    [][/\ \A r \in Requests :
             LET before == req[r]
                 after  == req'[r]
             IN  /\ (after.pc = "search" /\ before.pc # "search")
                        => before.pc \in {"lookup", "update"}
                 /\ (after.st # before.st) => after.pc = "search"
                 /\ (Len(after.st.searched_usernames) > Len(before.st.searched_usernames))
                        => before.pc = "search"
                 /\ (before.pc # "done" /\ after.pc = "done" /\ after.response.cached)
                        => /\ before.pc = "update"
                           /\ after.st = NotStarted(<<>>)
                           /\ InsertedKeys = {}
                           /\ Cardinality(api_cache') = Cardinality(api_cache)
                 /\ before.pc = "done" => after = before
       /\ InsertedKeys # {} =>
             \E r \in Requests :
                 /\ req[r].pc = "search" /\ req'[r].pc = "done"
                 /\ LoopEnded(req[r].st)
                 /\ req'[r].response.cached = FALSE
                 /\ InsertedKeys = {generate_query_hash(req[r].query, "sherlock_osint")}
                 /\ Cardinality(api_cache') = Cardinality(api_cache) + 1]_vars

\* C12 witness: one request missed, probed all of its at least two candidates
\* and inserted its row; another was then answered from that row with no probe
C12_Witness ==
    \E r1, r2 \in Requests :
        /\ req[r1].pc = "done" /\ req[r1].response.statusCode = 200
        /\ req[r1].response.cached = FALSE
        /\ req[r1].cache_raised = "none"
        /\ Len(req[r1].st.usernames) >= 2
        /\ Len(req[r1].st.searched_usernames) = Len(req[r1].st.usernames)
        /\ req[r2].pc = "done" /\ req[r2].response.cached
        /\ req[r2].st = NotStarted(<<>>)
        /\ req[r2].response.results = req[r1].response.results
        /\ req[r2].response.results # <<>>
        /\ req[r2].row.hit_count = InitialHitCount

\* the requests answered from the row stored under a key
Hitters(query_hash) ==
    {r \in Requests : /\ req[r].pc = "done"
                      /\ req[r].response.cached
                      /\ req[r].row.query_hash = query_hash}

\* the least of a non-empty set of numbers
Least(S) == CHOOSE x \in S : \A y \in S : x <= y

\* the hit counter a row held before the first of the requests in H read it
InitialCount(H) == Least({req[r].row.hit_count : r \in H})

\* C13: when the requests that hit a cache entry have all been answered, the
\* entry's stored hit counter is its initial value plus the number of those
\* requests, however their reads and updates interleave
C13_NoLostIncrement ==
    \A row \in api_cache :
        LET H == Hitters(row.query_hash)
        IN  (H # {} /\ \A r \in Requests : req[r].pc \in {"idle", "done"}) =>
                row.hit_count = InitialCount(H) + Cardinality(H)

=============================================================================
